---- MODULE Spec2Model ----
(***************************************************************************)
(* A model of the survey-debriefing chatbot (src/app.py, src/utils.py):    *)
(* the prompt template engine, the chat format adapters, the session       *)
(* initializer, the per-turn callback chains, the end-of-interview check,  *)
(* the chat logger and the archiver.                                       *)
(*                                                                         *)
(* A text (a Python str) is a sequence of tokens; the empty text is <<>>.  *)
(* Python's None is the value None below, which is no text.                *)
(***************************************************************************)
EXTENDS Integers, Sequences, FiniteSets, TLC

\* ------------------------------------------------------------------ bounds

\* Submissions accepted in one session.
MaxTurns == 2
\* Tokens of one streamed completion.
MaxReplyLen == 2
\* Tokens of the last bot message drawn for the end-of-interview check.
MaxTextLen == 4
\* Tokens (literal chunks and placeholders) of a drawn template.
MaxTemplateLen == 2
\* Positional arguments of a drawn format call.
MaxArgs == 2
\* Pairs of a transcript drawn for the format adapters.
MaxPairs == 2
\* Exit clicks of one session.
MaxExits == 2

\* ------------------------------------------------------------------- texts

None == <<"None">>

\* The tokens texts are made of: ordinary text and the two halves of the
\* end-of-interview sentinel "<end_of_survey>".
Tokens == {"a", "<end_of_", "survey>"}

end_of_interview == <<"<end_of_", "survey>">>

limit == 20

SeqsUpTo(S, n) == UNION {[1..k -> S] : k \in 0..n}

SetOf(seq) == {seq[i] : i \in 1..Len(seq)}

IsPrefix(s, t) == Len(s) <= Len(t) /\ SubSeq(t, 1, Len(s)) = s

\* Python's `sub in text`.
Contains(text, sub) ==
  \E i \in 1..(Len(text) - Len(sub) + 1) : SubSeq(text, i, i + Len(sub) - 1) = sub

\* Python's text.replace(old, ""): one pass from the left over the
\* non-overlapping occurrences of old.
RECURSIVE Replace(_, _)
Replace(text, old) ==
  IF Len(text) < Len(old)
  THEN text
  ELSE IF SubSeq(text, 1, Len(old)) = old
       THEN Replace(SubSeq(text, Len(old) + 1, Len(text)), old)
       ELSE <<Head(text)>> \o Replace(Tail(text), old)

\* ------------------------------------------------------- call results

Returned(v) == [raised |-> "none", value |-> v]

Raise(e) == [raised |-> e, value |-> <<>>]

Pending == [raised |-> "pending", value |-> <<>>]

\* -------------------------------------------------------- PromptTemplate

\* A template is a sequence of <<"lit", token>> and <<"field", name>>; the
\* field named "" is the unnamed placeholder "{}".
Lit(s) == <<"lit", s>>

Field(n) == <<"field", n>>

IsField(tok) == tok[1] = "field"

parse_template(template) ==
  LET fs == SelectSeq(template, IsField)
  IN  [i \in 1..Len(fs) |-> fs[i][2]]

\* A positional argument: a string or a dict.
EmptyDict == [k \in {} |-> <<>>]

StrArg(text) == [kind |-> "str", text |-> text, dict |-> EmptyDict]

DictArg(d) == [kind |-> "dict", text |-> <<>>, dict |-> d]

\* str() of a positional argument.
StrOf(arg) == IF arg.kind = "str" THEN arg.text ELSE <<"{dict}">>

\* Python's str.format(*args, **kwargs) from the auto-numbered index auto:
\* an unnamed field takes the next positional argument (IndexError when
\* there is none), a named field takes its keyword (KeyError when absent).
RECURSIVE str_format_from(_, _, _, _)
str_format_from(template, args, kwargs, auto) ==
  IF template = <<>>
  THEN Returned(<<>>)
  ELSE LET tok == Head(template)
           here == IF ~IsField(tok) THEN Returned(<<tok[2]>>)
                   ELSE IF tok[2] = ""
                        THEN IF auto + 1 > Len(args)
                             THEN Raise("IndexError")
                             ELSE Returned(StrOf(args[auto + 1]))
                        ELSE IF tok[2] \in DOMAIN kwargs
                             THEN Returned(kwargs[tok[2]])
                             ELSE Raise("KeyError")
           next == IF IsField(tok) /\ tok[2] = "" THEN auto + 1 ELSE auto
       IN  IF here.raised # "none"
           THEN here
           ELSE LET rest == str_format_from(Tail(template), args, kwargs, next)
                IN  IF rest.raised # "none"
                    THEN rest
                    ELSE Returned(here.value \o rest.value)

str_format(template, args, kwargs) == str_format_from(template, args, kwargs, 0)

KwargsMismatchLoose(kwargs, variables) ==
  DOMAIN kwargs # {} /\ ~(SetOf(variables) \subseteq DOMAIN kwargs)

\* utils.py:70
KwargsMismatch(kwargs, variables) ==
  DOMAIN kwargs # {} /\ DOMAIN kwargs # SetOf(variables)

\* utils.py:74
ArgCountMismatch(args, variables) ==
  args # <<>> /\ Len(args) # Len(variables)

\* utils.py:80
IsSingleDict(args) == Len(args) = 1 /\ args[1].kind = "dict"

\* utils.py:82
DictMismatch(d, variables) == DOMAIN d # SetOf(variables)

\* utils.py:87
NothingSupplied(args, kwargs, variables) ==
  args = <<>> /\ DOMAIN kwargs = {} /\ variables # <<>>

\* PromptTemplate.format
format(template, args, kwargs) ==
  LET variables == parse_template(template)
  IN  IF KwargsMismatch(kwargs, variables) THEN Raise("ValueError")
      ELSE IF ArgCountMismatch(args, variables) THEN Raise("ValueError")
      ELSE IF IsSingleDict(args)
           THEN IF DictMismatch(args[1].dict, variables)
                THEN Raise("ValueError")
                ELSE str_format(template, <<>>, args[1].dict)
      ELSE IF NothingSupplied(args, kwargs, variables) THEN Raise("ValueError")
      ELSE LET r == str_format(template, args, kwargs)
           IN  IF r.raised = "KeyError" THEN Raise("ValueError") ELSE r

\* -------------------------------------------------------- format adapters

Message(role, content) == [role |-> role, content |-> content]

PopulatedUnlessNone(slot) == ~(slot = None)

\* utils.py:115: not ((pair[i] is None) or (pair[i] == ""))
Populated(slot) == ~(slot = None \/ slot = <<>>)

PairMessages(pair) ==
  (IF Populated(pair[1]) THEN <<Message("user", pair[1])>> ELSE <<>>)
  \o (IF Populated(pair[2]) THEN <<Message("assistant", pair[2])>> ELSE <<>>)

RECURSIVE convert_gradio_to_openai(_)
convert_gradio_to_openai(chat_history) ==
  IF chat_history = <<>>
  THEN <<>>
  ELSE PairMessages(Head(chat_history)) \o convert_gradio_to_openai(Tail(chat_history))

WithoutLeadingUser(messages) == messages

\* utils.py:125-126
WithLeadingUser(messages) ==
  IF messages[1].role # "user"
  THEN <<Message("user", None)>> \o messages
  ELSE messages

convert_openai_to_gradio(messages) ==
  IF messages = <<>>
  THEN Raise("IndexError")
  ELSE LET ms == WithLeadingUser(messages)
       IN  IF Len(ms) % 2 = 1
           THEN Raise("IndexError")
           ELSE Returned([k \in 1..(Len(ms) \div 2) |->
                            <<ms[2 * k - 1].content, ms[2 * k].content>>])

\* ----------------------------------------------------- session initializer

NoParam == "<absent>"

\* request.query_params.get(key, default)
Get(params, key, default) == IF params[key] = NoParam THEN default ELSE params[key]

\* assets/question_mapping.json
question_mapping == [id \in {"0"} |-> "q0.json"]

\* assets/questions/q0.json
question_data ==
  [question |-> <<"How satisfied were you?">>,
   choices |-> <<<<"Low">>, <<"Medium">>, <<"High">>>>]

\* assets/initial_message.txt
InitialTemplate == <<Lit("Q:"), Field("surveyQuestion")>>

\* assets/system_message.txt
SystemTemplate == <<Lit("S:"), Field("surveyQuestion"), Lit("R:"), Field("responseVal")>>

\* Python's int(text) for the response parameters drawn below.
IntOf(text) ==
  CASE text = "0" -> Returned(0)
    [] text = "1" -> Returned(1)
    [] text = "2" -> Returned(2)
    [] text = "3" -> Returned(3)
    [] text = "-1" -> Returned(0 - 1)
    [] text = "-3" -> Returned(0 - 3)
    [] text = "-4" -> Returned(0 - 4)
    [] OTHER -> Raise("ValueError")

\* Python's seq[i]: a negative index counts from the end.
Index(seq, i) ==
  IF i >= 0 /\ i < Len(seq) THEN Returned(seq[i + 1])
  ELSE IF i < 0 /\ i >= 0 - Len(seq) THEN Returned(seq[Len(seq) + i + 1])
  ELSE Raise("IndexError")

\* The five session fields of a successful initialize_interview.
SessionFields(user_id, session_id, question_wording, initial_message, system_message) ==
  [userId |-> user_id, sessionId |-> session_id, questionWording |-> question_wording,
   initialMessage |-> initial_message, systemMessage |-> system_message]

initialize_interview(params, assetsPresent) ==
  LET user_id == Get(params, "user", "testUser")
      session_id == Get(params, "session", "testSession")
      question_id == Get(params, "questionid", "0")
      response_id == Get(params, "response", "0")
  IN  IF question_id \notin DOMAIN question_mapping THEN Raise("KeyError")
      ELSE IF ~assetsPresent THEN Raise("FileNotFoundError")
      ELSE LET question_wording == question_data.question
               idx == IntOf(response_id)
           IN  IF idx.raised # "none" THEN idx
               ELSE LET response_text == Index(question_data.choices, idx.value)
                    IN  IF response_text.raised # "none" THEN response_text
                        ELSE LET initial_message ==
                                   format(InitialTemplate, <<>>,
                                          "surveyQuestion" :> question_wording)
                                 system_message ==
                                   format(SystemTemplate, <<>>,
                                          ("surveyQuestion" :> question_wording)
                                          @@ ("responseVal" :> response_text.value))
                             IN  IF initial_message.raised # "none" THEN initial_message
                                 ELSE IF system_message.raised # "none" THEN system_message
                                 ELSE Returned(SessionFields(user_id, session_id,
                                                 question_wording, initial_message.value,
                                                 system_message.value))

\* ------------------------------------------------------- interview engine

Last(chat_history) == chat_history[Len(chat_history)]

AllButLast(chat_history) == SubSeq(chat_history, 1, Len(chat_history) - 1)

SetLastBot(chat_history, text) ==
  [chat_history EXCEPT ![Len(chat_history)] = <<@[1], text>>]

user_message(message, chat_history) == Append(chat_history, <<message, None>>)

CompletionRequestOfAll(chat_history, system_message) ==
  <<[role |-> "system", content |-> system_message]>>
  \o convert_gradio_to_openai(chat_history)
  \o <<[role |-> "user", content |-> chat_history[Len(chat_history)][1]]>>

\* The completion request bot_message builds (app.py:156-162).
CompletionRequest(chat_history, system_message) ==
  <<Message("system", system_message)>>
  \o convert_gradio_to_openai(AllButLast(chat_history))
  \o <<Message("user", Last(chat_history)[1])>>

\* `if delta:` (app.py:171)
Truthy(delta) == delta # None /\ delta # <<>>

LengthReachedStrict(chat_history) == Len(chat_history) > limit

\* app.py:198
LengthReached(chat_history) == Len(chat_history) >= limit

\* app.py:201
Stripped(text) == Replace(text, end_of_interview)

\* interview_end_check: the chat history and the flag it returns, or the
\* TypeError of `end_of_interview in None`.
interview_end_check(chat_history) ==
  LET bot == Last(chat_history)[2]
  IN  IF bot = None
      THEN Raise("TypeError")
      ELSE LET found == Contains(bot, end_of_interview)
           IN  Returned([chat_history |-> IF found
                                          THEN SetLastBot(chat_history, Stripped(bot))
                                          ELSE chat_history,
                         flag |-> LengthReached(chat_history) \/ found])

\* ChatLoggerHandler.record: the line appended to logs/<session>.jsonl (the
\* timestamp is left out).
LogEntry(session, role, record) == [session |-> session, role |-> role, message |-> record]

\* json.dumps of one archived record.
json_dumps(record) == <<"{", "role:", record.role, "content:", record.content, "}">>

\* The lines upload_azure uploads (utils.py:172-173).
records_text(chat_history) ==
  LET records == convert_gradio_to_openai(chat_history)
  IN  [j \in 1..Len(records) |-> json_dumps(records[j])]

\* ------------------------------------------------------------------ state

VARIABLES
  startButton,   \* [visible]
  chatInput,     \* [visible, interactive]
  chatSubmit,    \* [visible, interactive]
  exitButton,    \* [visible]
  EndMessage,    \* [visible, value]
  chatDisplay,   \* the displayed transcript: a sequence of <<user, bot>> pairs
  session,       \* the gr.State values userId .. systemMessage
  startPc,       \* position of the startButton.click chain
  pc,            \* position of each per-turn chain
  local,         \* bot_message's chat_history of each chain
  log,           \* the lines of the session's log file
  blob,          \* the remote object of the session (None: no such object)
  lastRequest,   \* the last completion request issued
  nRequests,     \* completion requests issued
  nSubmitted,    \* submissions accepted
  nCodes,        \* completion codes generated
  nUploads,      \* uploads that succeeded
  initStatus,    \* "none", "ok" or "failed": how initialize_interview ended
  turn,          \* per chain: the <<user text, bot text>> of its own turn
  loggedTurns,   \* the turns whose log_interaction has run, in that order
  callArgs,      \* a library call drawn for the pure functions
  callResult     \* its result

sessionVars ==
  <<startButton, chatInput, chatSubmit, exitButton, EndMessage, chatDisplay, session,
    startPc, pc, local, log, blob, lastRequest, nRequests, nSubmitted, nCodes, nUploads,
    initStatus, turn, loggedTurns>>

callVars == <<callArgs, callResult>>

vars == <<sessionVars, callVars>>

\* The two wired per-turn chains: chatInput.submit and chatSubmit.click.
Chains == {"enter", "click"}

\* What the participant can type and submit.
UserTexts == {<<>>, <<"u">>}

\* The content of one streamed chunk: absent, empty, text or the sentinel.
Deltas == {None, <<>>, <<"a">>, end_of_interview}

QueryParams ==
  [user : {NoParam}, session : {NoParam},
   questionid : {NoParam, "7"},
   response : {NoParam, "3"}]

\* The layout (app.py:256-300): everything but the start button hidden.
InitSession ==
  /\ startButton = [visible |-> TRUE]
  /\ chatInput = [visible |-> FALSE, interactive |-> FALSE]
  /\ chatSubmit = [visible |-> FALSE, interactive |-> FALSE]
  /\ exitButton = [visible |-> FALSE]
  /\ EndMessage = [visible |-> FALSE, value |-> <<>>]
  /\ chatDisplay = <<>>
  /\ session = SessionFields(None, None, None, None, None)
  /\ startPc = "idle"
  /\ pc = [c \in Chains |-> "idle"]
  /\ local = [c \in Chains |-> <<>>]
  /\ log = <<>>
  /\ blob = None
  /\ lastRequest = <<>>
  /\ nRequests = 0
  /\ nSubmitted = 0
  /\ nCodes = 0
  /\ nUploads = 0
  /\ initStatus = "none"
  /\ turn = [c \in Chains |-> <<None, None>>]
  /\ loggedTurns = <<>>

NoCall == [fn |-> "none"]

Init == InitSession /\ callArgs = NoCall /\ callResult = Returned(<<>>)

\* --------------------------------------------------------------- actions

\* startButton.click: initialize_interview; its outputs are set only when it
\* returns.
StartClick ==
  /\ startButton.visible
  /\ startPc = "idle"
  /\ \E params \in QueryParams, assetsPresent \in BOOLEAN :
       LET r == initialize_interview(params, assetsPresent)
       IN  /\ session' = IF r.raised = "none" THEN r.value ELSE session
           /\ initStatus' = IF r.raised = "none" THEN "ok" ELSE "failed"
  /\ startPc' = "initialize_interface"
  /\ UNCHANGED <<startButton, chatInput, chatSubmit, exitButton, EndMessage, chatDisplay,
                 pc, local, log, blob, lastRequest, nRequests, nSubmitted, nCodes, nUploads,
                 turn, loggedTurns, callVars>>

\* .then(initialize_interface): runs whether or not the step before it raised.
InitializeInterface ==
  /\ startPc = "initialize_interface"
  /\ chatDisplay' = <<<<None, session.initialMessage>>>>
  /\ chatInput' = [visible |-> TRUE, interactive |-> TRUE]
  /\ chatSubmit' = [visible |-> TRUE, interactive |-> TRUE]
  /\ startButton' = [visible |-> FALSE]
  /\ startPc' = "idle"
  /\ UNCHANGED <<exitButton, EndMessage, session, pc, local, log, blob,
                 lastRequest, nRequests, nSubmitted, nCodes, nUploads, initStatus, turn,
                 loggedTurns, callVars>>

\* The control that triggers a chain.
Trigger(c) == IF c = "enter" THEN chatInput ELSE chatSubmit

\* chatInput.submit / chatSubmit.click: user_message (queue=False). Nothing
\* in the code disables the trigger while a chain runs; each chain is taken
\* to run one instance at a time.
Submit(c) ==
  /\ Trigger(c).visible /\ Trigger(c).interactive
  /\ pc[c] = "idle"
  /\ nSubmitted < MaxTurns
  /\ \E message \in UserTexts :
       /\ chatDisplay' = user_message(message, chatDisplay)
       /\ turn' = [turn EXCEPT ![c] = <<message, None>>]
  /\ pc' = [pc EXCEPT ![c] = "bot_message"]
  /\ nSubmitted' = nSubmitted + 1
  /\ UNCHANGED <<startButton, chatInput, chatSubmit, exitButton, EndMessage, session,
                 startPc, local, log, blob, lastRequest, nRequests, nCodes, nUploads,
                 initStatus, loggedTurns, callVars>>

\* .then(bot_message): the request is built from the displayed transcript and
\* issued; the call fails, or the stream starts on bot_message's own copy.
BotMessageStart(c) ==
  /\ pc[c] = "bot_message"
  /\ lastRequest' = CompletionRequest(chatDisplay, session.systemMessage)
  /\ nRequests' = nRequests + 1
  /\ \E created \in BOOLEAN :
       IF created
       THEN /\ local' = [local EXCEPT ![c] = SetLastBot(chatDisplay, <<>>)]
            /\ pc' = [pc EXCEPT ![c] = "streaming"]
       ELSE /\ pc' = [pc EXCEPT ![c] = "log_interaction"]
            /\ UNCHANGED local
  /\ UNCHANGED <<startButton, chatInput, chatSubmit, exitButton, EndMessage, chatDisplay,
                 session, startPc, log, blob, nSubmitted, nCodes, nUploads, initStatus, turn,
                 loggedTurns, callVars>>

\* The fragments a turn has received so far, as one text.
Received(text) == IF text = None THEN <<>> ELSE text

\* One chunk of the stream: a truthy delta is appended and the copy is
\* yielded to the display.
BotChunk(c) ==
  /\ pc[c] = "streaming"
  /\ \E delta \in Deltas :
       /\ Len(Last(local[c])[2]) + (IF Truthy(delta) THEN Len(delta) ELSE 0) <= MaxReplyLen
       /\ IF Truthy(delta)
          THEN /\ local' = [local EXCEPT ![c] = SetLastBot(@, Last(@)[2] \o delta)]
               /\ chatDisplay' = local'[c]
               /\ turn' = [turn EXCEPT ![c] = <<@[1], Received(@[2]) \o delta>>]
          ELSE UNCHANGED <<local, chatDisplay, turn>>
  /\ UNCHANGED <<startButton, chatInput, chatSubmit, exitButton, EndMessage, session,
                 startPc, pc, log, blob, lastRequest, nRequests, nSubmitted, nCodes, nUploads,
                 initStatus, loggedTurns, callVars>>

\* The stream is exhausted.
BotDone(c) ==
  /\ pc[c] = "streaming"
  /\ pc' = [pc EXCEPT ![c] = "log_interaction"]
  /\ UNCHANGED <<startButton, chatInput, chatSubmit, exitButton, EndMessage, chatDisplay,
                 session, startPc, local, log, blob, lastRequest, nRequests,
                 nSubmitted, nCodes, nUploads, initStatus, turn, loggedTurns, callVars>>

\* .then(log_interaction): the last displayed pair, user then bot.
LogInteraction(c) ==
  /\ pc[c] = "log_interaction"
  /\ log' = log \o <<LogEntry(session.sessionId, "user", Last(chatDisplay)[1]),
                     LogEntry(session.sessionId, "bot", Last(chatDisplay)[2])>>
  /\ loggedTurns' = Append(loggedTurns, turn[c])
  /\ pc' = [pc EXCEPT ![c] = "interview_end_check"]
  /\ UNCHANGED <<startButton, chatInput, chatSubmit, exitButton, EndMessage, chatDisplay,
                 session, startPc, local, blob, lastRequest, nRequests, nSubmitted,
                 nCodes, nUploads, initStatus, turn, callVars>>

InputShownAlways(flag) == TRUE

\* `visible= not flag` of the text box and the submit button (app.py:205, 215).
InputShown(flag) == ~flag

\* .then(interview_end_check): its outputs are set only when it returns.
InterviewEndCheck(c) ==
  /\ pc[c] = "interview_end_check"
  /\ LET r == interview_end_check(chatDisplay)
     IN  IF r.raised = "none"
         THEN /\ chatDisplay' = r.value.chat_history
              /\ exitButton' = [visible |-> r.value.flag]
              /\ chatInput' = [visible |-> InputShown(r.value.flag), interactive |-> TRUE]
              /\ chatSubmit' = [visible |-> InputShown(r.value.flag), interactive |-> TRUE]
         ELSE UNCHANGED <<chatDisplay, exitButton, chatInput, chatSubmit>>
  /\ pc' = [pc EXCEPT ![c] = "idle"]
  /\ UNCHANGED <<startButton, EndMessage, session, startPc, local, log, blob,
                 lastRequest, nRequests, nSubmitted, nCodes, nUploads, initStatus, turn,
                 loggedTurns, callVars>>

\* generate_completion_code: "cd-" and a fresh uuid4, here the count of the
\* codes generated so far.
generate_completion_code(n) == <<"cd-", n + 1>>

\* What the object holds after an upload that appends to it.
upload_blob_appending(existing, data) == IF existing = None THEN data ELSE existing \o data

\* BlobClient.upload_blob(data, blob_type="AppendBlob", overwrite=True) on the
\* object named by the session id: the data replaces what the object held.
upload_blob(existing, data) == data

\* exitButton.click: end_interview generates the code, uploads the transcript
\* (the upload may fail, and then nothing is displayed) and shows the code.
ExitClick ==
  /\ exitButton.visible
  /\ nCodes < MaxExits
  /\ nCodes' = nCodes + 1
  /\ \E uploaded \in BOOLEAN :
       IF uploaded
       THEN /\ blob' = upload_blob(blob, records_text(chatDisplay))
            /\ nUploads' = nUploads + 1
            /\ EndMessage' = [visible |-> TRUE, value |-> generate_completion_code(nCodes)]
       ELSE UNCHANGED <<blob, nUploads, EndMessage>>
  /\ UNCHANGED <<startButton, chatInput, chatSubmit, exitButton, chatDisplay, session,
                 startPc, pc, local, log, lastRequest, nRequests, nSubmitted,
                 initStatus, turn, loggedTurns, callVars>>

Next ==
  \/ StartClick
  \/ InitializeInterface
  \/ \E c \in Chains : Submit(c)
  \/ \E c \in Chains : BotMessageStart(c)
  \/ \E c \in Chains : BotChunk(c)
  \/ \E c \in Chains : BotDone(c)
  \/ \E c \in Chains : LogInteraction(c)
  \/ \E c \in Chains : InterviewEndCheck(c)
  \/ ExitClick

Spec == Init /\ [][Next]_vars

\* ---------------------------------------- the end-of-interview check alone

\* A completed earlier turn of a drawn transcript.
FillerPair == <<<<"u">>, <<"a">>>>

\* The log lines of the turns, user then bot of each in turn order.
RECURSIVE LogOf(_, _)
LogOf(session_id, turns) ==
  IF turns = <<>>
  THEN <<>>
  ELSE <<LogEntry(session_id, "user", Head(turns)[1]),
         LogEntry(session_id, "bot", Head(turns)[2])>>
       \o LogOf(session_id, Tail(turns))

DefaultParams ==
  [user |-> NoParam, session |-> NoParam, questionid |-> NoParam, response |-> NoParam]

\* A session about to run interview_end_check on its n-pair transcript: the
\* initial message, n - 2 completed turns and the turn whose reply just ended.
InitEndCheck ==
  \E n \in 2..(limit + 1), u \in UserTexts,
     text \in SeqsUpTo(Tokens, MaxTextLen) \cup {None} :
    LET fields == initialize_interview(DefaultParams, TRUE).value
        turns == [i \in 1..(n - 2) |-> FillerPair] \o <<<<u, text>>>>
        T == <<<<None, fields.initialMessage>>>> \o turns
    IN  /\ startButton = [visible |-> FALSE]
        /\ chatInput = [visible |-> TRUE, interactive |-> TRUE]
        /\ chatSubmit = [visible |-> TRUE, interactive |-> TRUE]
        /\ exitButton = [visible |-> FALSE]
        /\ EndMessage = [visible |-> FALSE, value |-> <<>>]
        /\ chatDisplay = T
        /\ session = fields
        /\ startPc = "idle"
        /\ pc = [c \in Chains |-> IF c = "enter" THEN "interview_end_check" ELSE "idle"]
        /\ local = [c \in Chains |->
                      IF c = "enter"
                      THEN SetLastBot(T, IF text = None THEN <<>> ELSE text)
                      ELSE <<>>]
        /\ log = LogOf(fields.sessionId, turns)
        /\ blob = None
        /\ lastRequest = CompletionRequest(T, fields.systemMessage)
        /\ nRequests = n - 1
        /\ nSubmitted = n - 1
        /\ nCodes = 0
        /\ nUploads = 0
        /\ initStatus = "ok"
        /\ turn = [c \in Chains |-> IF c = "enter" THEN <<u, text>> ELSE <<None, None>>]
        /\ loggedTurns = turns
        /\ callArgs = NoCall
        /\ callResult = Returned(<<>>)

NextEndCheck == \E c \in Chains : InterviewEndCheck(c)

SpecEndCheck == InitEndCheck /\ [][NextEndCheck]_vars

\* ------------------------------------------------ PromptTemplate.format alone

TemplateTokens == {Lit("x"), Field("a"), Field("b"), Field("")}

Keys == {"a", "b", "c"}

DictOf(K) == [k \in K |-> <<"val", k>>]

PosName(i) == CASE i = 1 -> "p1" [] i = 2 -> "p2" [] i = 3 -> "p3" [] OTHER -> "pN"

\* The positional argument tuples drawn: plain strings, or one dict.
ArgTuples ==
  {[i \in 1..n |-> StrArg(<<PosName(i)>>)] : n \in 0..MaxArgs}
  \cup {<<DictArg(DictOf(K))>> : K \in SUBSET Keys}

InitFormat ==
  /\ InitSession
  /\ callArgs \in [fn : {"format"},
                   template : SeqsUpTo(TemplateTokens, MaxTemplateLen),
                   args : ArgTuples,
                   kwargs : {DictOf(K) : K \in SUBSET Keys}]
  /\ callResult = Pending

CallFormat ==
  /\ callArgs.fn = "format"
  /\ callResult = Pending
  /\ callResult' = format(callArgs.template, callArgs.args, callArgs.kwargs)
  /\ UNCHANGED <<sessionVars, callArgs>>

NextFormat == CallFormat

SpecFormat == InitFormat /\ [][NextFormat]_vars

\* ---------------------------------------------------- format adapters alone

Slots == {None, <<>>, <<"a">>, <<"b">>}

InitConvert ==
  /\ InitSession
  /\ callArgs \in [fn : {"convert"}, chat_history : SeqsUpTo(Slots \X Slots, MaxPairs)]
  /\ callResult = Pending

CallGradioToOpenai ==
  /\ callArgs.fn = "convert"
  /\ callResult = Pending
  /\ callResult' = [raised |-> "flat", value |-> convert_gradio_to_openai(callArgs.chat_history)]
  /\ UNCHANGED <<sessionVars, callArgs>>

CallOpenaiToGradio ==
  /\ callArgs.fn = "convert"
  /\ callResult.raised = "flat"
  /\ callResult' = convert_openai_to_gradio(callResult.value)
  /\ UNCHANGED <<sessionVars, callArgs>>

NextConvert == CallGradioToOpenai \/ CallOpenaiToGradio

SpecConvert == InitConvert /\ [][NextConvert]_vars

\* ------------------------------------------------ initialize_interview alone

\* The query parameters drawn: each absent or given; the response indices
\* around both ends of the three choices, and one that is no integer.
InitializeParams ==
  [user : {NoParam, "u1"}, session : {NoParam, "s1"},
   questionid : {NoParam, "0", "7"},
   response : {NoParam, "0", "1", "2", "3", "-1", "-3", "-4", "x"}]

InitInitialize ==
  /\ InitSession
  /\ callArgs \in [fn : {"initialize_interview"}, params : InitializeParams,
                   assetsPresent : BOOLEAN]
  /\ callResult = Pending

CallInitializeInterview ==
  /\ callArgs.fn = "initialize_interview"
  /\ callResult = Pending
  /\ callResult' = initialize_interview(callArgs.params, callArgs.assetsPresent)
  /\ UNCHANGED <<sessionVars, callArgs>>

NextInitialize == CallInitializeInterview

SpecInitialize == InitInitialize /\ [][NextInitialize]_vars

\* ------------------------------------------- bot_message's request alone

\* The system messages drawn: that of a session, or none.
SystemMessages == {None, <<"S:">>}

\* bot_message runs after user_message has appended a pair: the transcripts
\* drawn have at least one pair.
InitRequest ==
  /\ InitSession
  /\ callArgs \in [fn : {"bot_message"},
                   chat_history : SeqsUpTo(Slots \X Slots, MaxPairs) \ {<<>>},
                   system_message : SystemMessages]
  /\ callResult = Pending

CallBotMessage ==
  /\ callArgs.fn = "bot_message"
  /\ callResult = Pending
  /\ callResult' = Returned(CompletionRequest(callArgs.chat_history, callArgs.system_message))
  /\ UNCHANGED <<sessionVars, callArgs>>

NextRequest == CallBotMessage

SpecRequest == InitRequest /\ [][NextRequest]_vars

\* ------------------------------------------------------------ properties

\* The interview has ended: the exit button is shown, the input is hidden.
Ended == exitButton.visible /\ ~chatInput.visible /\ ~chatSubmit.visible

InFlight(c) == pc[c] # "idle"

\* The session was started by a successful initialize_interview.
Started == initStatus = "ok"

\* C1: within one session at most one user turn is in flight: between a
\* submission and the end of its chain no second submission is accepted
\* (stated of the sessions that started properly).
OneTurnInFlight == Started => Cardinality({c \in Chains : InFlight(c)}) <= 1

\* An interview_end_check step of chain c.
CheckStep(c) == pc[c] = "interview_end_check" /\ pc'[c] = "idle"

HasBotText(chat_history) == Last(chat_history)[2] # None

SentinelStripped ==
  [][\A c \in Chains :
       (/\ CheckStep(c)
        /\ HasBotText(chatDisplay)
        /\ Contains(Last(chatDisplay)[2], end_of_interview))
       => /\ Ended'
          /\ Last(chatDisplay')[2] = Replace(Last(chatDisplay)[2], end_of_interview)
          /\ ~Contains(Last(chatDisplay')[2], end_of_interview)]_vars

\* C4: Ended is terminal: from an Ended state no step adds a pair to the
\* transcript, issues a completion request or writes a log record (stated of
\* the sessions that started properly).
EndedIsTerminal ==
  [][(Started /\ Ended)
     => /\ Len(chatDisplay') <= Len(chatDisplay)
        /\ nRequests' = nRequests
        /\ log' = log]_vars

\* C5: when initialize_interview has failed the interview cannot start: the
\* interface is not switched to interactive mode, the input controls stay
\* hidden and disabled, and no turn is submitted.
FailedInitCannotStart ==
  initStatus = "failed"
  => /\ chatDisplay = <<>>
     /\ ~chatInput.visible /\ ~chatInput.interactive
     /\ ~chatSubmit.visible /\ ~chatSubmit.interactive
     /\ nSubmitted = 0

\* C6: the log is only ever appended to, and it holds, for the turns logged
\* so far, the user record then the bot record of each turn, in turn order,
\* each with the text of its own turn (stated of the sessions that started
\* properly).
LogIsTurnsInOrder ==
  [][Started
     => /\ IsPrefix(log, log')
        /\ log' = LogOf(session'.sessionId, loggedTurns')]_vars

WellFormed(chat_history) ==
  \A i \in 1..Len(chat_history) :
    Populated(chat_history[i][1]) /\ Populated(chat_history[i][2])

ConvertDone == callArgs.fn = "convert" /\ callResult.raised \notin {"pending", "flat"}

\* C7: for every well-formed transcript T (both slots of every pair
\* populated), convert_openai_to_gradio(convert_gradio_to_openai(T)) = T.
RoundTripWellFormed ==
  (ConvertDone /\ WellFormed(callArgs.chat_history))
  => callResult = Returned(callArgs.chat_history)

FormatDone == callArgs.fn = "format" /\ callResult.raised # "pending"

PlaceholderSet == SetOf(parse_template(callArgs.template))

KeywordsOnly == callArgs.args = <<>>

SingleMappingOnly == IsSingleDict(callArgs.args) /\ DOMAIN callArgs.kwargs = {}

\* C8: for a template with at least one placeholder, format raises ValueError
\* whenever the supplied key set (the keyword arguments, or the keys of a
\* single mapping argument, the empty set included) differs from the
\* placeholder set.
FormatRejectsMismatch ==
  (/\ FormatDone
   /\ PlaceholderSet # {}
   /\ \/ KeywordsOnly /\ DOMAIN callArgs.kwargs # PlaceholderSet
      \/ SingleMappingOnly /\ DOMAIN callArgs.args[1].dict # PlaceholderSet)
  => callResult.raised = "ValueError"

\* C8's case: keyword arguments that hold every placeholder and one key more
\* were rejected.
FormatRejectsWitness ==
  /\ FormatDone
  /\ KeywordsOnly
  /\ PlaceholderSet # {}
  /\ PlaceholderSet \subseteq DOMAIN callArgs.kwargs
  /\ DOMAIN callArgs.kwargs # PlaceholderSet
  /\ callResult.raised = "ValueError"

PositionalOnly ==
  /\ DOMAIN callArgs.kwargs = {}
  /\ \A i \in 1..Len(callArgs.args) : callArgs.args[i].kind = "str"

\* C9: format accepts each of its three argument shapes for every template:
\* positional arguments as many as the placeholders, keyword arguments whose
\* keys are the placeholder set, or one mapping whose keys are the
\* placeholder set; it then returns the text and raises nothing.
FormatAcceptsShapes ==
  (/\ FormatDone
   /\ \/ PositionalOnly /\ Len(callArgs.args) = Len(parse_template(callArgs.template))
      \/ KeywordsOnly /\ DOMAIN callArgs.kwargs = PlaceholderSet
      \/ SingleMappingOnly /\ DOMAIN callArgs.args[1].dict = PlaceholderSet)
  => callResult.raised = "none"

\* C10: every step changes the displayed transcript only by appending one
\* pair or by changing the bot slot of its last pair: no other slot changes
\* and the length never decreases (stated of the sessions that started
\* properly).
TranscriptGrowsAtEnd ==
  [][Started
     => /\ Len(chatDisplay') >= Len(chatDisplay)
        /\ Len(chatDisplay') <= Len(chatDisplay) + 1
        /\ \A i \in 1..Len(chatDisplay) :
             /\ chatDisplay'[i][1] = chatDisplay[i][1]
             /\ (i < Len(chatDisplay) \/ Len(chatDisplay') > Len(chatDisplay))
                => chatDisplay'[i] = chatDisplay[i]]_vars

\* The start action has completed: initialize_interface has hidden the start
\* button.
StartDone == ~startButton.visible

\* C11: after every end-of-interview evaluation the text box and the submit
\* button are visible exactly when the interview is not Ended and the exit
\* button is visible exactly when it is Ended; in no state after the start
\* action (initialize_interview, then initialize_interface) are the input
\* controls and the exit button both visible or both hidden.
ControlsFollowEnded ==
  /\ [](StartDone
        => /\ chatInput.visible = chatSubmit.visible
           /\ chatInput.visible # exitButton.visible)
  /\ [][\A c \in Chains :
          CheckStep(c)
          => /\ chatInput'.visible = ~Ended'
             /\ chatSubmit'.visible = ~Ended'
             /\ exitButton'.visible = Ended']_vars

\* C11's case: a turn's end-of-interview evaluation has run and ended the
\* interview; the input is hidden and the exit button shown.
ControlsFollowEndedWitness ==
  /\ Started
  /\ StartDone
  /\ loggedTurns # <<>>
  /\ \A c \in Chains : pc[c] = "idle"
  /\ Ended
  /\ ~chatInput.visible /\ exitButton.visible

\* A step in which an upload succeeded.
UploadStep == nUploads' = nUploads + 1

\* C12: archival upload is idempotent: after every upload, the first and
\* each later one of the session, the one object named by the session id
\* holds exactly the newline-delimited flattening of the transcript just
\* uploaded, and an upload of a transcript whose flattening the object
\* already holds leaves the object unchanged.
UploadOverwrites ==
  [][UploadStep
     => /\ blob' = records_text(chatDisplay)
        /\ (nUploads > 0 /\ blob = records_text(chatDisplay)) => blob' = blob]_vars

\* C12's case: the session's transcript has been uploaded twice.
UploadOverwritesWitness ==
  /\ Started
  /\ nUploads = 2
  /\ Len(chatDisplay) >= 2
  /\ blob = records_text(chatDisplay)

\* A slot that holds text: neither absent (None) nor empty ("").
Filled(slot) == slot # None /\ slot # <<>>

\* The k-th slot of a transcript read pair by pair, user slot then bot slot,
\* and the role of the message it gives.
SlotOf(chat_history, k) == chat_history[(k + 1) \div 2][2 - (k % 2)]

RoleOf(k) == IF k % 2 = 1 THEN "user" ELSE "assistant"

FilledSlots(chat_history) ==
  {k \in 1..(2 * Len(chat_history)) : Filled(SlotOf(chat_history, k))}

\* The j-th filled slot in transcript order.
NthFilled(chat_history, j) ==
  CHOOSE k \in FilledSlots(chat_history) :
    Cardinality({m \in FilledSlots(chat_history) : m <= k}) = j

FlatDone == callArgs.fn = "convert" /\ callResult.raised = "flat"

\* C13: for every transcript T, convert_gradio_to_openai(T) holds, pair by
\* pair in transcript order, the user message then the assistant message of
\* each filled slot and no message for an empty or absent slot; so its length
\* is at most 2 * Len(T), and equals it exactly when every slot is filled.
FlattenEmitsFilledInOrder ==
  FlatDone
  => LET T == callArgs.chat_history
         flat == callResult.value
     IN  /\ Len(flat) = Cardinality(FilledSlots(T))
         /\ \A j \in 1..Len(flat) :
              flat[j] = Message(RoleOf(NthFilled(T, j)), SlotOf(T, NthFilled(T, j)))
         /\ Len(flat) <= 2 * Len(T)
         /\ (Len(flat) = 2 * Len(T)) <=> (\A k \in 1..(2 * Len(T)) : Filled(SlotOf(T, k)))

\* C13's case: a two-pair transcript with an absent slot, an empty slot and
\* two filled slots has been flattened to two messages.
FlattenEmitsWitness ==
  /\ FlatDone
  /\ callArgs.chat_history = << <<None, <<"a">> >>, << <<"b">>, <<>> >> >>
  /\ callResult.value = <<Message("assistant", <<"a">>), Message("user", <<"b">>)>>

\* C14: the completion code is one-time per session: once an exit action has
\* displayed a completion code, no later exit action of the session displays
\* a different one (stated of the sessions that started properly).
CompletionCodeIssuedOnce ==
  [][(Started /\ EndMessage.visible) => EndMessage'.value = EndMessage.value]_vars

InitializeDone == callArgs.fn = "initialize_interview" /\ callResult.raised # "pending"

\* The call reaches the choice selection with an integer response index.
ReachesSelection ==
  /\ Get(callArgs.params, "questionid", "0") \in DOMAIN question_mapping
  /\ callArgs.assetsPresent
  /\ IntOf(Get(callArgs.params, "response", "0")).raised = "none"

\* C15: for a question with choices c[0..n-1], initialize_interview with a
\* response index i, 0 <= i < n, returns a system message with the question
\* wording and c[i] substituted and an initial message with the question
\* wording substituted; for every integer index outside 0..n-1 it fails with
\* an out-of-range error and returns no session fields.
SelectsChoiceOrFails ==
  (InitializeDone /\ ReachesSelection)
  => LET i == IntOf(Get(callArgs.params, "response", "0")).value
         c == question_data.choices
         wording == question_data.question
     IN  IF 0 <= i /\ i < Len(c)
         THEN /\ callResult.raised = "none"
              /\ callResult.value.systemMessage = <<"S:">> \o wording \o <<"R:">> \o c[i + 1]
              /\ callResult.value.initialMessage = <<"Q:">> \o wording
         ELSE callResult = Raise("IndexError")

\* C16: in every reachable transcript a pair's user slot is filled before
\* its bot slot: no pair has a filled bot slot while its user slot is empty
\* or absent (stated of the sessions that started properly).
UserSlotFilledFirst ==
  Started
  => \A i \in 1..Len(chatDisplay) :
       Filled(chatDisplay[i][2]) => Filled(chatDisplay[i][1])

RequestDone == callArgs.fn = "bot_message" /\ callResult.raised = "none"

\* The last pair is pending: its bot slot is not yet set.
PendingLast(chat_history) == chat_history[Len(chat_history)][2] = None

\* C17: for every transcript with a pending last pair, the completion request
\* bot_message builds is one system message holding the system message, then
\* convert_gradio_to_openai of the transcript without its last pair (so an
\* initial bot message is the first assistant message), then one user message
\* holding the pending pair's user text: no other message, and the pending
\* pair gives exactly one message, the last.
RequestIsSystemHistoryUser ==
  (RequestDone /\ PendingLast(callArgs.chat_history))
  => LET T == callArgs.chat_history
         prior == SubSeq(T, 1, Len(T) - 1)
         req == callResult.value
     IN  /\ Len(req) = Len(convert_gradio_to_openai(prior)) + 2
         /\ req[1] = [role |-> "system", content |-> callArgs.system_message]
         /\ SubSeq(req, 2, Len(req) - 1) = convert_gradio_to_openai(prior)
         /\ req[Len(req)] = [role |-> "user", content |-> T[Len(T)][1]]
         /\ (Len(T) >= 2 /\ T[1][1] = None /\ Filled(T[1][2]))
            => req[2] = [role |-> "assistant", content |-> T[1][2]]

\* C17's case: the request of a first turn, after the initial bot message.
RequestWitness ==
  /\ RequestDone
  /\ callArgs.chat_history = << <<None, <<"a">> >>, << <<"b">>, None >> >>
  /\ callArgs.system_message = <<"S:">>
  /\ callResult.value = <<[role |-> "system", content |-> <<"S:">>],
                          [role |-> "assistant", content |-> <<"a">>],
                          [role |-> "user", content |-> <<"b">>]>>

\* A step of chain c's stream that receives a non-empty fragment.
FragmentStep(c) == pc[c] = "streaming" /\ turn'[c] # turn[c]

\* The step that ends chain c's stream.
StreamEndStep(c) == pc[c] = "streaming" /\ pc'[c] = "log_interaction"

\* C18: while a bot response streams no fragment is dropped or reordered:
\* after each non-empty fragment the published bot slot of the pending pair
\* is the concatenation of the fragments received so far, in arrival order,
\* and when the stream ends the bot slot of the last displayed pair is the
\* concatenation of all fragments of that stream (stated of the sessions that
\* started properly; a stream without any fragment leaves the slot unset).
FragmentsKeptInOrder ==
  [][\A c \in Chains :
       Started
       => /\ FragmentStep(c) => Last(chatDisplay')[2] = turn'[c][2]
          /\ StreamEndStep(c) => Last(chatDisplay')[2] = turn[c][2]]_vars

\* A transcript of an interview with completed turns: the first pair holds
\* the initial message and no user text, every later pair holds user text and
\* bot text.
InterviewShaped(chat_history) ==
  /\ Len(chat_history) >= 1
  /\ chat_history[1][1] = None
  /\ Filled(chat_history[1][2])
  /\ \A i \in 2..Len(chat_history) :
       Filled(chat_history[i][1]) /\ Filled(chat_history[i][2])

\* C19: for every transcript T of an interview with completed turns,
\* convert_openai_to_gradio(convert_gradio_to_openai(T)) = T: the user
\* message put before a leading assistant message restores the absent user
\* slot of the first pair.
RoundTripInterview ==
  (ConvertDone /\ InterviewShaped(callArgs.chat_history))
  => callResult = Returned(callArgs.chat_history)

\* C19's case: the transcript of an initial message and one completed turn
\* has come back from the round trip.
RoundTripInterviewWitness ==
  /\ ConvertDone
  /\ callArgs.chat_history = << <<None, <<"a">> >>, << <<"b">>, <<"a">> >> >>
  /\ callResult = Returned(callArgs.chat_history)

IsUserEntry(entry) == entry.role = "user"

IsUserLine(line) == line[3] = "user"

\* The user messages of the log, in log order.
LoggedUserMessages(entries) ==
  LET us == SelectSeq(entries, IsUserEntry)
  IN  [j \in 1..Len(us) |-> us[j].message]

\* The contents of the user-role records of an archived object, in order.
ArchivedUserMessages(lines) ==
  LET us == SelectSeq(lines, IsUserLine)
  IN  [j \in 1..Len(us) |-> us[j][5]]

\* s is t with some elements left out.
RECURSIVE IsSubsequence(_, _)
IsSubsequence(s, t) ==
  IF s = <<>> THEN TRUE
  ELSE IF t = <<>> THEN FALSE
  ELSE IF Head(s) = Head(t) THEN IsSubsequence(Tail(s), Tail(t))
  ELSE IsSubsequence(s, Tail(t))

\* C20: whenever a session is archived, every user message recorded in the
\* session's log is in the archived object as a user-role record, in the
\* same relative order as in the log (stated of the sessions that started
\* properly).
LoggedTurnsArchived ==
  [][(Started /\ UploadStep)
     => IsSubsequence(LoggedUserMessages(log), ArchivedUserMessages(blob'))]_vars

====
